---------------------------- MODULE Spec2Model ----------------------------
(***************************************************************************)
(* A model of app.py: the detection pipeline thread (detection_loop), the   *)
(* relay pulse (pulse_relay), the bounded frame queue and its stream        *)
(* consumers (generate_frames), the drawing-mode flag and the region        *)
(* (polygon) store with its HTTP handlers.                                  *)
(*                                                                          *)
(* Every `with <lock>:` block of the source is one atomic step: all         *)
(* accesses to a shared variable are made under that variable's lock, and   *)
(* no block contains a blocking call.  Time is the clock time.time()        *)
(* reads, in whole seconds; it advances by the environment action Tick.     *)
(***************************************************************************)
EXTENDS Integers, Sequences, FiniteSets

(* ------------------------------ constants ------------------------------ *)

\* app.py:26  COOLDOWN = 2
COOLDOWN == 2
\* app.py:29  frame_queue = queue.Queue(maxsize=2)
QueueMaxsize == 2

(* -------------------------------- bounds -------------------------------- *)

\* The camera delivers at most MaxFrames frames in a run of the model; every
\* capture after them fails.
MaxFrames == 3
\* The clock runs from StartClock to StartClock + MaxElapsed.
MaxElapsed == 4

\* point_in_polygon taken alone is called on the points (x, y) with x and y in
\* -1..MaxCoord, at most MaxCalls times on the same arguments.
MaxCoord == 15
MaxCalls == 2

\* The HTTP threads take at most MaxRequests replace and clear requests in a
\* run of the model.
MaxRequests == 2

\* time.time() is seconds since 1970: far beyond COOLDOWN when the program
\* starts, so the first qualifying detection always finds the cooldown over.
StartClock == COOLDOWN + 1

(* ------------------------------ value sets ------------------------------ *)

\* None, and a value that is not None.
None == <<>>
Some(v) == <<v>>
\* The frame variables hold a frame's number (1, 2, ...), or NoFrame for None.
NoFrame == 0

\* Bounding boxes (x1, y1, x2, y2) the detector may report.
BoxInside  == <<2, 2, 8, 8>>
BoxOutside == <<12, 2, 19, 8>>
\* What model(frame) may return as results[0].boxes.
DetectionLists == { <<>>, <<BoxInside>>, <<BoxOutside>>, <<BoxOutside, BoxInside>> }

\* Points and polygons that point_in_polygon is called with when it is taken
\* alone: every point of the grid, against every polygon of fewer than 3
\* vertices over VertexCoords, the square, a triangle and a concave polygon.
GridCoords == (0 - 1)..MaxCoord
GridPoints == { <<x, y>> : x \in GridCoords, y \in GridCoords }
VertexCoords == {0, 5, 10}
Vertices == { <<x, y>> : x \in VertexCoords, y \in VertexCoords }
SmallPolygons == { <<>> } \cup { <<v>> : v \in Vertices }
                          \cup { <<v, w>> : v \in Vertices, w \in Vertices }
Triangle == << <<0, 0>>, <<10, 0>>, <<5, 10>> >>
Concave  == << <<0, 0>>, <<10, 0>>, <<10, 10>>, <<5, 5>>, <<0, 10>> >>

\* Regions a polygon file or a request may hold.
Square  == << <<0, 0>>, <<10, 0>>, <<10, 10>>, <<0, 10>> >>
Segment == << <<0, 0>>, <<10, 0>> >>
Regions == { <<>>, Segment, Square }
\* The polygons point_in_polygon is called with when it is taken alone.
Polygons == SmallPolygons \cup {Square, Triangle, Concave}
\* A JSON value that is no list and has neither copy() nor len(): a number, null.
NotAList == << <<>> >>
\* A JSON string: no copy(), but len().
NotAListStr == << <<>>, <<>> >>
IsList(v) == v \notin {NotAList, NotAListStr}
HasLen(v) == v # NotAList

\* The characters of str(n) for an integer n.
Digits == << "0", "1", "2", "3", "4", "5", "6", "7", "8", "9" >>
RECURSIVE IntText(_)
IntText(n) ==
    IF n < 0 THEN << "-" >> \o IntText(0 - n)
    ELSE IF n < 10 THEN << Digits[n + 1] >>
    ELSE IntText(n \div 10) \o << Digits[(n % 10) + 1] >>

\* What json.dump writes for one point, "[x, y]".
PointText(p) == << "[" >> \o IntText(p[1]) \o << ",", " " >> \o IntText(p[2]) \o << "]" >>

\* What json.dump writes between the brackets of a list of points.
RECURSIVE ListText(_)
ListText(pts) ==
    IF pts = <<>> THEN <<>>
    ELSE IF Len(pts) = 1 THEN PointText(pts[1])
    ELSE PointText(pts[1]) \o << ",", " " >> \o ListText(Tail(pts))

\* app.py:66: the text json.dump({'points': points}, f) writes, a character
\* at a time: {"points": [[0, 0], [10, 0]]}
Text(pts) ==
    << "{", "\"", "p", "o", "i", "n", "t", "s", "\"", ":", " ", "[" >>
        \o ListText(pts) \o << "]", "}" >>
TextLen(pts) == Len(Text(pts))

\* app.py:49-52: the points json.load() and data.get('points', []) give for a
\* text.  Of the texts the file can hold here (records of Regions, their
\* beginnings, and one of these written over the start of another) json.load()
\* takes the records and raises on every other one.
Loads(text) == { r \in Regions : Text(r) = text }

\* POLYGON_SAVE_FILE: absent, or its text; state and points say what
\* load_polygon() makes of the text, size is its length.
FileAbsent    == [state |-> "absent", points |-> <<>>, size |-> 0, text |-> <<>>]
FileWith(pts) == [state |-> "valid", points |-> pts, size |-> TextLen(pts),
                  text |-> Text(pts)]
FileOf(text)  ==
    IF Loads(text) # {}
    THEN FileWith(CHOOSE r \in Loads(text) : TRUE)
    ELSE [state |-> "corrupt", points |-> <<>>, size |-> Len(text), text |-> text]
\* app.py:65: what open(POLYGON_SAVE_FILE, 'w') leaves.
FileEmpty     == FileOf(<<>>)

\* app.py:66: the first n characters of the text of pts written from the start
\* of the file over what it holds; what was there beyond them stays.
Overwritten(f, pts, n) ==
    FileOf(SubSeq(Text(pts), 1, n) \o SubSeq(f.text, n + 1, Len(f.text)))

\* How many characters of a text of length len the file system may have taken
\* when the write raises: any number short of all.
Taken(len) == 0 .. (len - 1)

\* HTTP worker threads (threaded=True, app.py:924).
Threads == {"t1", "t2"}
\* Bodies of a POST /save_polygon: no JSON, JSON without points, JSON with points.
NoJson == [json |-> FALSE, has_points |-> FALSE, points |-> <<>>]
NoPoints == [json |-> TRUE, has_points |-> FALSE, points |-> <<>>]
WithPoints(pts) == [json |-> TRUE, has_points |-> TRUE, points |-> pts]
Bodies == {NoJson, NoPoints}
              \cup { WithPoints(r) : r \in Regions \cup {NotAList, NotAListStr} }
\* No response yet.
NoResponse == [kind |-> "none", code |-> 0, points |-> <<>>]
\* app.py:32, detection_status when the process starts.
StatusAtStart == [detected |-> FALSE, last_trigger |-> None, count |-> 0]
\* The region as a request finds it: polygon_points and the file.
Region(mem, f) == [mem |-> mem, file |-> f]
NoRegion == Region(<<>>, FileAbsent)

\* Stream connections (one generate_frames generator each).
Consumers == {"c1", "c2"}

\* The threads whose locking is looked at: the main thread, the detection
\* thread and the HTTP worker threads.
LockActors == {"main", "loop"} \cup Threads

\* app.py:31, 33, 36, 38
Locks == {"snapshot_lock", "status_lock", "polygon_lock", "drawing_lock"}

\* A thread that has not called anything yet.
NoPath == [todo |-> <<>>, doing |-> <<"none", "">>, held |-> {}]

\* Nothing has been written or pulsed since drawing_mode was last set.
NoLeak == [writers |-> {}, pulses |-> 0]

(* ------------------------------- the state ------------------------------ *)

VARIABLES
    clock,             \* what time.time() returns now
    started,           \* __main__ has loaded the polygon and started the threads
    file,              \* POLYGON_SAVE_FILE
    polygon_points,    \* app.py:35
    drawing_mode,      \* app.py:37
    snapshot_frame,    \* app.py:30
    detection_status,  \* app.py:32
    last_trigger_time, \* app.py:34
    frame_queue,       \* app.py:29
    relay_pin,         \* level of RELAY_PIN: "INPUT" (released), "LOW" (relay on), "HIGH"
    gpio_setup,        \* GPIO.setup done and GPIO.cleanup not yet
    pc,                \* where detection_loop is
    is_drawing,        \* detection_loop's locals
    frame,
    detections,
    poly_points,
    detected,
    now,
    nframes,           \* frames the camera has delivered
    cpc,               \* per stream connection: "off" or "get"
    joined,            \* per open stream connection: last frame published before it connected
    received,          \* per open stream connection: frames it was handed, in order
    pulses,            \* log of pulse_relay() calls: [at |-> now, frame |-> frame]
    npublished,        \* last frame put into frame_queue
    hpc,               \* per HTTP thread: where its handler is
    hbody,             \* per HTTP thread: the request's body
    hpoints,           \* per HTTP thread: the handler's local `points`
    hcopy,             \* per HTTP thread: save_polygon's local `points`
    resp,              \* per HTTP thread: the response it is about to send
    last_replaced,     \* region of the last replace answered with success, None after a clear
    cleared,           \* a clear was answered with success, and no replace has set the region since
    hbefore,           \* per HTTP thread: the region in memory and on disk when its request came
    io_failed,         \* open(), json.dump() or os.remove() has raised in this run
    nrequests,         \* replace and clear requests taken so far
    leak,              \* since drawing_mode was last set: the frames of the iterations that
                       \* wrote detection_status, and the number of pulse_relay() calls
    status_lock,       \* app.py:33: who holds status_lock ("free", "loop", or an HTTP thread)
    sread,             \* per HTTP thread: the dict status() is building
    pip_point,         \* point_in_polygon taken alone: its argument `point`,
    pip_polygon,       \* its argument `polygon`,
    pip_results,       \* and what its calls on them have returned, in order
    lk                 \* the locking of the threads taken alone, per thread: the lock
                       \* operation or blocking call it did last (doing), those left on
                       \* the path it is on (todo), and the locks it holds (held)

vars == << clock, started, file, polygon_points, drawing_mode, snapshot_frame,
           detection_status, last_trigger_time, frame_queue, relay_pin, gpio_setup,
           pc, is_drawing, frame, detections, poly_points, detected, now, nframes,
           cpc, joined, received, pulses, npublished,
           hpc, hbody, hpoints, hcopy, resp, last_replaced, cleared, hbefore,
           io_failed, nrequests, leak, status_lock, sread, pip_point, pip_polygon,
           pip_results,
           lk >>

regionVars == << file, polygon_points >>
relayVars  == << relay_pin, gpio_setup >>
localVars  == << is_drawing, frame, detections, poly_points, detected, now >>
streamVars == << cpc, joined, received >>
statusVars == << status_lock, sread >>
handlerVars == << hpc, hbody, hpoints, hcopy, resp, last_replaced, cleared, hbefore,
                 io_failed, nrequests >>
geomVars   == << pip_point, pip_polygon, pip_results >>
httpVars   == << handlerVars, statusVars, geomVars, lk >>

(* ------------------------------ pure helpers ---------------------------- *)

Min(a, b) == IF a < b THEN a ELSE b
Max(a, b) == IF a > b THEN a ELSE b

\* An edge test that looks at y alone.
EdgeCrossesAnyX(x, y, p1, p2) ==
    /\ y > Min(p1[2], p2[2])
    /\ y <= Max(p1[2], p2[2])

\* app.py:86-92, one edge (p1, p2) of the ray casting loop: whether `inside` toggles.
\* x <= xinters is compared exactly: multiplied out by p2y - p1y, whose sign
\* decides the direction of the comparison.
EdgeCrosses(x, y, p1, p2) ==
    LET p1x == p1[1]  p1y == p1[2]
        p2x == p2[1]  p2y == p2[2]
        d   == p2y - p1y
        xLeXinters == IF d > 0 THEN (x - p1x) * d <= (y - p1y) * (p2x - p1x)
                               ELSE (x - p1x) * d >= (y - p1y) * (p2x - p1x)
    IN  /\ y > Min(p1y, p2y)
        /\ y <= Max(p1y, p2y)
        /\ x <= Max(p1x, p2x)
        /\ (p1x = p2x \/ xLeXinters)

\* app.py:84-93, the loop from edge i on.
RECURSIVE RayCast(_, _, _, _, _)
RayCast(x, y, polygon, i, inside) ==
    LET n  == Len(polygon)
        p1 == polygon[((i - 1) % n) + 1]
        p2 == polygon[(i % n) + 1]
    IN  IF i > n THEN inside
        ELSE RayCast(x, y, polygon, i + 1,
                     IF EdgeCrosses(x, y, p1, p2) THEN ~inside ELSE inside)

\* A containment test without the shortcut for fewer than 3 vertices.
point_in_polygon_no_shortcut(point, polygon) ==
    IF Len(polygon) = 0 THEN FALSE
    ELSE RayCast(point[1], point[2], polygon, 1, FALSE)

\* A containment test whose shortcut is for fewer than 2 vertices.
point_in_polygon_short_2(point, polygon) ==
    IF Len(polygon) < 2 THEN TRUE
    ELSE RayCast(point[1], point[2], polygon, 1, FALSE)

\* app.py:74-95
point_in_polygon(point, polygon) ==
    IF Len(polygon) < 3 THEN TRUE
    ELSE RayCast(point[1], point[2], polygon, 1, FALSE)

\* app.py:211-213, the centre of a box, int() of the mean of its corners.
Center(box) == << (box[1] + box[3]) \div 2, (box[2] + box[4]) \div 2 >>

\* SelectSeq with the test written out.
RECURSIVE FilterInside(_, _)
FilterInside(boxes, polygon) ==
    IF boxes = <<>> THEN <<>>
    ELSE LET rest == FilterInside(Tail(boxes), polygon)
         IN  IF point_in_polygon(Center(Head(boxes)), polygon)
             THEN <<Head(boxes)>> \o rest ELSE rest

\* A filter that retains every detection.
valid_detections_unfiltered(boxes, polygon) == boxes

\* app.py:198-219
valid_detections(boxes, polygon) ==
    IF Len(polygon) > 0 THEN FilterInside(boxes, polygon) ELSE boxes

(* ------------------------------ initial state --------------------------- *)

\* app.py:29-38, before __main__ runs.  The polygon file is whatever an earlier
\* run left on disk.
InitGlobals ==
    /\ clock = StartClock
    /\ started = FALSE
    /\ file \in {FileAbsent} \cup { FileWith(r) : r \in Regions }
    /\ polygon_points = <<>>
    /\ drawing_mode = FALSE
    /\ snapshot_frame = NoFrame
    /\ detection_status = StatusAtStart
    /\ last_trigger_time = 0
    /\ frame_queue = <<>>
    /\ relay_pin = "INPUT"
    /\ gpio_setup = FALSE
    /\ pc = "off"
    /\ is_drawing = FALSE
    /\ frame = NoFrame
    /\ detections = <<>>
    /\ poly_points = <<>>
    /\ detected = FALSE
    /\ now = 0
    /\ nframes = 0
    /\ cpc = [c \in Consumers |-> "off"]
    /\ joined = [c \in Consumers |-> 0]
    /\ received = [c \in Consumers |-> <<>>]
    /\ pulses = <<>>
    /\ npublished = 0
    /\ hpc = [t \in Threads |-> "idle"]
    /\ hbody = [t \in Threads |-> NoJson]
    /\ hpoints = [t \in Threads |-> <<>>]
    /\ hcopy = [t \in Threads |-> <<>>]
    /\ resp = [t \in Threads |-> NoResponse]
    /\ last_replaced = None
    /\ cleared = FALSE
    /\ hbefore = [t \in Threads |-> NoRegion]
    /\ io_failed = FALSE
    /\ nrequests = 0
    /\ leak = NoLeak
    /\ status_lock = "free"
    /\ sread = [t \in Threads |-> StatusAtStart]
    /\ lk = [a \in LockActors |-> NoPath]

\* The program as it starts; point_in_polygon is not looked at alone.
Init ==
    /\ InitGlobals
    /\ pip_point = <<0, 0>>
    /\ pip_polygon = <<>>
    /\ pip_results = <<>>

(* ------------------------------ environment ----------------------------- *)

\* Time passes.
Tick ==
    /\ clock < StartClock + MaxElapsed
    /\ clock' = clock + 1
    /\ UNCHANGED << started, regionVars, drawing_mode, snapshot_frame, detection_status,
                    last_trigger_time, frame_queue, relayVars, pc, localVars, nframes,
                    streamVars, pulses, npublished, httpVars, leak >>

(* --------------------------------- main --------------------------------- *)

\* app.py:44-57
load_polygon(f) ==
    IF f.state = "valid" THEN f.points ELSE polygon_points

\* app.py:907-913: load_polygon(), then the detection thread is started.
Main ==
    /\ ~started
    /\ started' = TRUE
    /\ polygon_points' = load_polygon(file)
    /\ pc' = "sample"
    /\ UNCHANGED << clock, file, drawing_mode, snapshot_frame, detection_status,
                    last_trigger_time, frame_queue, relayVars, localVars, nframes,
                    streamVars, pulses, npublished, httpVars, leak >>

\* The process is killed and started again: the globals are as app.py:29-38
\* makes them, no thread runs, no request is under way.  The file stays, and so
\* do the clock and the histories of the run (frames delivered, pulses, what
\* the clients were last told about the region).
Restart ==
    /\ started
    /\ started' = FALSE
    /\ polygon_points' = <<>>
    /\ drawing_mode' = FALSE
    /\ snapshot_frame' = NoFrame
    /\ detection_status' = StatusAtStart
    /\ last_trigger_time' = 0
    /\ frame_queue' = <<>>
    /\ relay_pin' = "INPUT"
    /\ gpio_setup' = FALSE
    /\ pc' = "off"
    /\ is_drawing' = FALSE
    /\ frame' = NoFrame
    /\ detections' = <<>>
    /\ poly_points' = <<>>
    /\ detected' = FALSE
    /\ now' = 0
    /\ cpc' = [c \in Consumers |-> "off"]
    /\ joined' = [c \in Consumers |-> 0]
    /\ received' = [c \in Consumers |-> <<>>]
    /\ hpc' = [t \in Threads |-> "idle"]
    /\ hbody' = [t \in Threads |-> NoJson]
    /\ hpoints' = [t \in Threads |-> <<>>]
    /\ hcopy' = [t \in Threads |-> <<>>]
    /\ resp' = [t \in Threads |-> NoResponse]
    /\ hbefore' = [t \in Threads |-> NoRegion]
    /\ leak' = NoLeak
    /\ status_lock' = "free"
    /\ sread' = [t \in Threads |-> StatusAtStart]
    /\ UNCHANGED << clock, file, nframes, pulses, npublished, last_replaced, cleared,
                    io_failed, nrequests, geomVars, lk >>

(* ----------------------------- detection_loop --------------------------- *)

\* A queue that takes one frame more than maxsize.
FullOneLate(q) == Len(q) >= QueueMaxsize + 1

\* queue.Queue.full()
Full(q) == Len(q) >= QueueMaxsize

\* app.py:239-243 and 161-165: put the frame unless the queue is full.
Put(q, f) == IF ~Full(q) THEN Append(q, f) ELSE q

\* An exception that reaches app.py:247: the loop ends, the camera is closed.
Raise ==
    /\ pc' = "stopped"

\* A branch that takes the flag it sampled the wrong way round.
BranchInverted(drawing) == IF drawing THEN "capture" ELSE "snap_capture"

\* A branch that ignores the flag it sampled.
BranchAlwaysInfer(drawing) == "capture"

\* app.py:133: `if is_drawing:` takes the snapshot branch, else the inference one.
Branch(drawing) == IF drawing THEN "snap_capture" ELSE "capture"

\* app.py:130-133.  The locals of the iteration before are dead here.
SampleDrawing ==
    /\ pc = "sample"
    /\ is_drawing' = drawing_mode
    /\ pc' = Branch(drawing_mode)
    /\ frame' = NoFrame
    /\ detections' = <<>>
    /\ poly_points' = <<>>
    /\ detected' = FALSE
    /\ now' = 0
    /\ UNCHANGED << clock, started, regionVars, drawing_mode, snapshot_frame,
                    detection_status, last_trigger_time, frame_queue, relayVars,
                    nframes, streamVars, pulses, npublished, httpVars, leak >>

\* What picam2.capture_array() may do: return a frame, return None, raise.
CaptureOutcomes == {"frame", "none", "error"}

\* What it may do when the camera has delivered n frames.
CameraOutcomes(n) ==
    IF n < MaxFrames THEN CaptureOutcomes ELSE CaptureOutcomes \ {"frame"}

\* app.py:136-143 and 169-172
SnapCapture ==
    /\ pc = "snap_capture"
    /\ \E o \in CameraOutcomes(nframes) :
         IF o = "frame"
         THEN /\ nframes' = nframes + 1
              /\ frame' = nframes + 1
              /\ pc' = "snap_store"
         ELSE /\ pc' = "sample"
              /\ UNCHANGED << nframes, frame >>
    /\ UNCHANGED << clock, started, regionVars, drawing_mode, snapshot_frame,
                    detection_status, last_trigger_time, frame_queue, relayVars,
                    is_drawing, detections, poly_points, detected, now,
                    streamVars, pulses, npublished, httpVars, leak >>

\* A snapshot branch that keeps its frame to itself.
SnapStoreSkipped ==
    /\ pc = "snap_store"
    /\ pc' = "snap_poly"
    /\ UNCHANGED << clock, started, regionVars, drawing_mode, snapshot_frame,
                    detection_status, last_trigger_time, frame_queue, relayVars,
                    localVars, nframes, streamVars, pulses, npublished, httpVars, leak >>

\* A snapshot branch that also stamps the trigger time.
SnapStoreStamped ==
    /\ pc = "snap_store"
    /\ snapshot_frame' = frame
    /\ last_trigger_time' = clock
    /\ pc' = "snap_poly"
    /\ UNCHANGED << clock, started, regionVars, drawing_mode, detection_status,
                    frame_queue, relayVars, localVars, nframes,
                    streamVars, pulses, npublished, httpVars, leak >>

\* app.py:145-146
SnapStore ==
    /\ pc = "snap_store"
    /\ snapshot_frame' = frame
    /\ pc' = "snap_poly"
    /\ UNCHANGED << clock, started, regionVars, drawing_mode, detection_status,
                    last_trigger_time, frame_queue, relayVars, localVars, nframes,
                    streamVars, pulses, npublished, httpVars, leak >>

\* app.py:149-158; a polygon_points without copy() raises into app.py:169-172.
SnapPoly ==
    /\ pc = "snap_poly"
    /\ IF IsList(polygon_points)
       THEN /\ poly_points' = polygon_points
            /\ pc' = "snap_publish"
       ELSE /\ pc' = "sample"
            /\ UNCHANGED poly_points
    /\ UNCHANGED << clock, started, regionVars, drawing_mode, snapshot_frame,
                    detection_status, last_trigger_time, frame_queue, relayVars,
                    is_drawing, frame, detections, detected, now, nframes,
                    streamVars, pulses, npublished, httpVars, leak >>

\* app.py:160-168
SnapPublish ==
    /\ pc = "snap_publish"
    /\ frame_queue' = Put(frame_queue, frame)
    /\ npublished' = IF Full(frame_queue) THEN npublished ELSE frame
    /\ pc' = "sample"
    /\ UNCHANGED << clock, started, regionVars, drawing_mode, snapshot_frame,
                    detection_status, last_trigger_time, relayVars, localVars, nframes,
                    streamVars, pulses, httpVars, leak >>

\* A capture whose exception is not caught inside the loop.
CaptureFatal ==
    /\ pc = "capture"
    /\ \E o \in CameraOutcomes(nframes) :
         IF o = "frame"
         THEN /\ nframes' = nframes + 1
              /\ frame' = nframes + 1
              /\ pc' = "infer"
         ELSE /\ IF o = "error" THEN Raise ELSE pc' = "sample"
              /\ UNCHANGED << nframes, frame >>
    /\ UNCHANGED << clock, started, regionVars, drawing_mode, snapshot_frame,
                    detection_status, last_trigger_time, frame_queue, relayVars,
                    is_drawing, detections, poly_points, detected, now,
                    streamVars, pulses, npublished, httpVars, leak >>

\* app.py:174-186
Capture ==
    /\ pc = "capture"
    /\ \E o \in CameraOutcomes(nframes) :
         IF o = "frame"
         THEN /\ nframes' = nframes + 1
              /\ frame' = nframes + 1
              /\ pc' = "infer"
         ELSE /\ pc' = "sample"
              /\ UNCHANGED << nframes, frame >>
    /\ UNCHANGED << clock, started, regionVars, drawing_mode, snapshot_frame,
                    detection_status, last_trigger_time, frame_queue, relayVars,
                    is_drawing, detections, poly_points, detected, now,
                    streamVars, pulses, npublished, httpVars, leak >>

\* app.py:188-191: the detector returns its boxes, or raises.
Infer ==
    /\ pc = "infer"
    /\ \E ok \in BOOLEAN :
         IF ok
         THEN /\ \E d \in DetectionLists : detections' = d
              /\ pc' = "read_poly"
         ELSE /\ Raise
              /\ UNCHANGED detections
    /\ UNCHANGED << clock, started, regionVars, drawing_mode, snapshot_frame,
                    detection_status, last_trigger_time, frame_queue, relayVars,
                    is_drawing, frame, poly_points, detected, now, nframes,
                    streamVars, pulses, npublished, httpVars, leak >>

\* app.py:193-222; a polygon_points without copy() raises at app.py:195.
Filter ==
    /\ pc = "read_poly"
    /\ IF IsList(polygon_points)
       THEN /\ poly_points' = polygon_points
            /\ detected' = (Len(valid_detections(detections, polygon_points)) > 0)
            /\ pc' = "status"
       ELSE /\ Raise
            /\ UNCHANGED << poly_points, detected >>
    /\ UNCHANGED << clock, started, regionVars, drawing_mode, snapshot_frame,
                    detection_status, last_trigger_time, frame_queue, relayVars,
                    is_drawing, frame, detections, now, nframes,
                    streamVars, pulses, npublished, httpVars, leak >>

\* A lock that never makes anybody wait.
LockIgnored(l) == TRUE

\* threading.Lock: `with lock:` goes on when nobody holds the lock.
LockFree(l) == l = "free"

\* detection_status is written by the iteration of `frame`: remembered while
\* drawing_mode is set.
StatusWritten ==
    IF drawing_mode THEN [leak EXCEPT !.writers = @ \cup {frame}] ELSE leak

\* pulse_relay() is called: counted while drawing_mode is set.
PulseStarted ==
    IF drawing_mode THEN [leak EXCEPT !.pulses = @ + 1] ELSE leak

\* A status update that counts a detection only when the cooldown is over.
UpdateStatusCooldown ==
    /\ pc = "status"
    /\ LockFree(status_lock)
    /\ detection_status' =
         [detection_status EXCEPT
            !.detected = detected,
            !.count = IF detected /\ clock - last_trigger_time > COOLDOWN
                      THEN @ + 1 ELSE @]
    /\ pc' = "relay"
    /\ leak' = StatusWritten
    /\ UNCHANGED << clock, started, regionVars, drawing_mode, snapshot_frame,
                    last_trigger_time, frame_queue, relayVars, localVars, nframes,
                    streamVars, pulses, npublished, httpVars >>

\* app.py:223-226, the whole `with status_lock:` block as one step.
UpdateStatus ==
    /\ pc = "status"
    /\ LockFree(status_lock)
    /\ detection_status' =
         [detection_status EXCEPT !.detected = detected,
                                  !.count = IF detected THEN @ + 1 ELSE @]
    /\ pc' = "relay"
    /\ leak' = StatusWritten
    /\ UNCHANGED << clock, started, regionVars, drawing_mode, snapshot_frame,
                    last_trigger_time, frame_queue, relayVars, localVars, nframes,
                    streamVars, pulses, npublished, httpVars >>

\* app.py:223-226 step by step: the lock is taken ...
UpdateStatusAcquire ==
    /\ pc = "status"
    /\ LockFree(status_lock)
    /\ status_lock' = "loop"
    /\ pc' = "status_detected"
    /\ UNCHANGED << clock, started, regionVars, drawing_mode, snapshot_frame,
                    detection_status, last_trigger_time, frame_queue, relayVars,
                    localVars, nframes, streamVars, pulses, npublished,
                    handlerVars, sread, geomVars, leak, lk >>

\* ... app.py:224 writes detected ...
UpdateStatusDetected ==
    /\ pc = "status_detected"
    /\ detection_status' = [detection_status EXCEPT !.detected = detected]
    /\ pc' = "status_count"
    /\ leak' = StatusWritten
    /\ UNCHANGED << clock, started, regionVars, drawing_mode, snapshot_frame,
                    last_trigger_time, frame_queue, relayVars, localVars, nframes,
                    streamVars, pulses, npublished, httpVars >>

\* ... app.py:225-226 adds to count, and the lock is released.
UpdateStatusCount ==
    /\ pc = "status_count"
    /\ detection_status' =
         [detection_status EXCEPT !.count = IF detected THEN @ + 1 ELSE @]
    /\ status_lock' = "free"
    /\ pc' = "relay"
    /\ leak' = IF detected THEN StatusWritten ELSE leak
    /\ UNCHANGED << clock, started, regionVars, drawing_mode, snapshot_frame,
                    last_trigger_time, frame_queue, relayVars, localVars, nframes,
                    streamVars, pulses, npublished, handlerVars, sread, geomVars,
                    lk >>

\* A cooldown test that lets a pulse through COOLDOWN after the last one.
CooldownOverAtLeast(t, last) == t - last >= COOLDOWN

\* app.py:231
CooldownOver(t, last) == t - last > COOLDOWN

\* A relay check that sets last_trigger_time before it calls pulse_relay().
RelayCheckStampFirst ==
    /\ pc = "relay"
    /\ IF detected
       THEN /\ now' = clock
            /\ IF CooldownOver(clock, last_trigger_time)
               THEN /\ pulses' = Append(pulses, [at |-> clock, frame |-> frame])
                    /\ leak' = PulseStarted
                    /\ last_trigger_time' = clock
                    /\ pc' = "pulse_setup"
               ELSE /\ pc' = "publish"
                    /\ UNCHANGED << pulses, last_trigger_time, leak >>
       ELSE /\ pc' = "publish"
            /\ UNCHANGED << now, pulses, last_trigger_time, leak >>
    /\ UNCHANGED << clock, started, regionVars, drawing_mode, snapshot_frame,
                    detection_status, frame_queue, relayVars,
                    is_drawing, frame, detections, poly_points, detected, nframes,
                    streamVars, npublished, httpVars >>

\* app.py:229-233: read the clock, and call pulse_relay() if the cooldown is over.
RelayCheck ==
    /\ pc = "relay"
    /\ IF detected
       THEN /\ now' = clock
            /\ IF CooldownOver(clock, last_trigger_time)
               THEN /\ pulses' = Append(pulses, [at |-> clock, frame |-> frame])
                    /\ leak' = PulseStarted
                    /\ pc' = "pulse_setup"
               ELSE /\ pc' = "publish"
                    /\ UNCHANGED << pulses, leak >>
       ELSE /\ pc' = "publish"
            /\ UNCHANGED << now, pulses, leak >>
    /\ UNCHANGED << clock, started, regionVars, drawing_mode, snapshot_frame,
                    detection_status, last_trigger_time, frame_queue, relayVars,
                    is_drawing, frame, detections, poly_points, detected, nframes,
                    streamVars, npublished, httpVars >>

(* ------------------------------- pulse_relay ---------------------------- *)

\* Where detection_loop is while it is inside pulse_relay().
PulsePcs == {"pulse_setup", "pulse_on", "pulse_off", "pulse_cleanup"}

\* app.py:101-102: GPIO.setmode, GPIO.setup.  Any GPIO call may raise when the
\* actuator is not available.
PulseSetup ==
    /\ pc = "pulse_setup"
    /\ \E ok \in BOOLEAN :
         IF ok
         THEN /\ gpio_setup' = TRUE
              /\ pc' = "pulse_on"
         ELSE /\ Raise
              /\ UNCHANGED gpio_setup
    /\ UNCHANGED << clock, started, regionVars, drawing_mode, snapshot_frame,
                    detection_status, last_trigger_time, frame_queue, relay_pin,
                    localVars, nframes, streamVars, pulses, npublished, httpVars, leak >>

\* app.py:103-104: the pin is driven LOW (relay on), then the call sleeps.
PulseOn ==
    /\ pc = "pulse_on"
    /\ \E ok \in BOOLEAN :
         IF ok
         THEN /\ relay_pin' = "LOW"
              /\ pc' = "pulse_off"
         ELSE /\ Raise
              /\ UNCHANGED relay_pin
    /\ UNCHANGED << clock, started, regionVars, drawing_mode, snapshot_frame,
                    detection_status, last_trigger_time, frame_queue, gpio_setup,
                    localVars, nframes, streamVars, pulses, npublished, httpVars, leak >>

\* app.py:106-107: the pin is driven HIGH (relay off).
PulseOff ==
    /\ pc = "pulse_off"
    /\ \E ok \in BOOLEAN :
         IF ok
         THEN /\ relay_pin' = "HIGH"
              /\ pc' = "pulse_cleanup"
         ELSE /\ Raise
              /\ UNCHANGED relay_pin
    /\ UNCHANGED << clock, started, regionVars, drawing_mode, snapshot_frame,
                    detection_status, last_trigger_time, frame_queue, gpio_setup,
                    localVars, nframes, streamVars, pulses, npublished, httpVars, leak >>

\* app.py:108: GPIO.cleanup() makes the pin an input again and releases GPIO.
PulseCleanup ==
    /\ pc = "pulse_cleanup"
    /\ \E ok \in BOOLEAN :
         IF ok
         THEN /\ relay_pin' = "INPUT"
              /\ gpio_setup' = FALSE
              /\ pc' = "stamp"
         ELSE /\ Raise
              /\ UNCHANGED relayVars
    /\ UNCHANGED << clock, started, regionVars, drawing_mode, snapshot_frame,
                    detection_status, last_trigger_time, frame_queue,
                    localVars, nframes, streamVars, pulses, npublished, httpVars, leak >>

(* ------------------------ detection_loop, continued --------------------- *)

\* app.py:234
StampTime ==
    /\ pc = "stamp"
    /\ last_trigger_time' = now
    /\ pc' = "stamp_status"
    /\ UNCHANGED << clock, started, regionVars, drawing_mode, snapshot_frame,
                    detection_status, frame_queue, relayVars, localVars, nframes,
                    streamVars, pulses, npublished, httpVars, leak >>

\* app.py:235-236: last_trigger is datetime.now(), to the second.
StampStatus ==
    /\ pc = "stamp_status"
    /\ LockFree(status_lock)
    /\ detection_status' = [detection_status EXCEPT !.last_trigger = Some(clock)]
    /\ pc' = "publish"
    /\ leak' = StatusWritten
    /\ UNCHANGED << clock, started, regionVars, drawing_mode, snapshot_frame,
                    last_trigger_time, frame_queue, relayVars, localVars, nframes,
                    streamVars, pulses, npublished, httpVars >>

\* A publish step with the blocking put(): it waits while the queue is full.
PublishBlocking ==
    /\ pc = "publish"
    /\ ~Full(frame_queue)
    /\ frame_queue' = Append(frame_queue, frame)
    /\ npublished' = frame
    /\ pc' = "sample"
    /\ UNCHANGED << clock, started, regionVars, drawing_mode, snapshot_frame,
                    detection_status, last_trigger_time, relayVars, localVars, nframes,
                    streamVars, pulses, httpVars, leak >>

\* app.py:238-245
Publish ==
    /\ pc = "publish"
    /\ frame_queue' = Put(frame_queue, frame)
    /\ npublished' = IF Full(frame_queue) THEN npublished ELSE frame
    /\ pc' = "sample"
    /\ UNCHANGED << clock, started, regionVars, drawing_mode, snapshot_frame,
                    detection_status, last_trigger_time, relayVars, localVars, nframes,
                    streamVars, pulses, httpVars, leak >>

(* ------------------------------ drawing mode ---------------------------- *)

\* A stop_drawing that also puts detection_status back to its first value.
stop_drawing_reset ==
    /\ started
    /\ drawing_mode' = FALSE
    /\ detection_status' = StatusAtStart
    /\ leak' = NoLeak
    /\ UNCHANGED << clock, started, regionVars, snapshot_frame,
                    last_trigger_time, frame_queue, relayVars, pc, localVars, nframes,
                    streamVars, pulses, npublished, httpVars >>

\* app.py:296-302
start_drawing ==
    /\ started
    /\ drawing_mode' = TRUE
    /\ UNCHANGED << clock, started, regionVars, snapshot_frame, detection_status,
                    last_trigger_time, frame_queue, relayVars, pc, localVars, nframes,
                    streamVars, pulses, npublished, httpVars, leak >>

\* app.py:305-311
stop_drawing ==
    /\ started
    /\ drawing_mode' = FALSE
    /\ leak' = NoLeak
    /\ UNCHANGED << clock, started, regionVars, snapshot_frame, detection_status,
                    last_trigger_time, frame_queue, relayVars, pc, localVars, nframes,
                    streamVars, pulses, npublished, httpVars >>

(* ---------------------------- stream consumers -------------------------- *)

\* app.py:889-893: a client connects; its generator starts at app.py:261.
video_feed(c) ==
    /\ started
    /\ cpc[c] = "off"
    /\ cpc' = [cpc EXCEPT ![c] = "get"]
    /\ joined' = [joined EXCEPT ![c] = npublished]
    /\ received' = [received EXCEPT ![c] = <<>>]
    /\ UNCHANGED << clock, started, regionVars, drawing_mode, snapshot_frame,
                    detection_status, last_trigger_time, frame_queue, relayVars, pc,
                    localVars, nframes, pulses, npublished, httpVars, leak >>

\* What cv2.imencode may do: encode, return ret = False, or raise.
EncodeOutcomes == {"ok", "notret", "error"}

\* A generator that reads the oldest frame and leaves it in the queue.
generate_frames_peek(c) ==
    /\ cpc[c] = "get"
    /\ frame_queue # <<>>
    /\ \E o \in EncodeOutcomes :
         /\ received' = IF o = "ok"
                        THEN [received EXCEPT ![c] = Append(@, Head(frame_queue))]
                        ELSE IF o = "error" THEN [received EXCEPT ![c] = <<>>]
                        ELSE received
         /\ cpc' = IF o = "error" THEN [cpc EXCEPT ![c] = "off"] ELSE cpc
         /\ joined' = IF o = "error" THEN [joined EXCEPT ![c] = 0] ELSE joined
    /\ UNCHANGED << clock, started, regionVars, drawing_mode, snapshot_frame,
                    detection_status, last_trigger_time, frame_queue, relayVars, pc,
                    localVars, nframes, pulses, npublished, httpVars, leak >>

\* app.py:261-281, one turn of the generator that gets a frame.  (A get() that
\* times out on the empty queue changes nothing.)
generate_frames(c) ==
    /\ cpc[c] = "get"
    /\ frame_queue # <<>>
    /\ frame_queue' = Tail(frame_queue)
    /\ \E o \in EncodeOutcomes :
         /\ received' = IF o = "ok"
                        THEN [received EXCEPT ![c] = Append(@, Head(frame_queue))]
                        ELSE IF o = "error" THEN [received EXCEPT ![c] = <<>>]
                        ELSE received
         /\ cpc' = IF o = "error" THEN [cpc EXCEPT ![c] = "off"] ELSE cpc
         /\ joined' = IF o = "error" THEN [joined EXCEPT ![c] = 0] ELSE joined
    /\ UNCHANGED << clock, started, regionVars, drawing_mode, snapshot_frame,
                    detection_status, last_trigger_time, relayVars, pc,
                    localVars, nframes, pulses, npublished, httpVars, leak >>

\* The client closes the connection.
Disconnect(c) ==
    /\ cpc[c] = "get"
    /\ cpc' = [cpc EXCEPT ![c] = "off"]
    /\ joined' = [joined EXCEPT ![c] = 0]
    /\ received' = [received EXCEPT ![c] = <<>>]
    /\ UNCHANGED << clock, started, regionVars, drawing_mode, snapshot_frame,
                    detection_status, last_trigger_time, frame_queue, relayVars, pc,
                    localVars, nframes, pulses, npublished, httpVars, leak >>

(* ----------------------------- region handlers -------------------------- *)

\* What the pipeline and the streams hold.
loopVars == << clock, started, drawing_mode, snapshot_frame, detection_status,
               last_trigger_time, frame_queue, relayVars, pc, localVars, nframes,
               streamVars, pulses, npublished, leak >>

\* No region handler touches the pipeline's state or the status handlers'.
pipelineVars == << loopVars, statusVars, geomVars, lk >>

\* The handler of thread t has its response: (kind, code, points).
Answer(t, kind, code, pts) ==
    /\ hpc' = [hpc EXCEPT ![t] = "respond"]
    /\ resp' = [resp EXCEPT ![t] = [kind |-> kind, code |-> code, points |-> pts]]

\* app.py:318-320 and 329-330: a body that is no JSON object raises, and the
\* request is answered 400; else `points` is the field, or [].
save_polygon_endpoint(t, body) ==
    /\ started
    /\ hpc[t] = "idle"
    /\ nrequests < MaxRequests
    /\ nrequests' = nrequests + 1
    /\ hbody' = [hbody EXCEPT ![t] = body]
    /\ IF body.json
       THEN /\ hpoints' = [hpoints EXCEPT ![t] =
                              IF body.has_points THEN body.points ELSE <<>>]
            /\ hpc' = [hpc EXCEPT ![t] = "save_set"]
            /\ UNCHANGED resp
       ELSE /\ Answer(t, "replace", 400, <<>>)
            /\ UNCHANGED hpoints
    /\ hbefore' = [hbefore EXCEPT ![t] = Region(polygon_points, file)]
    /\ UNCHANGED << pipelineVars, regionVars, hcopy, last_replaced, cleared,
                    io_failed >>

\* app.py:322-323
SaveSet(t) ==
    /\ hpc[t] = "save_set"
    /\ polygon_points' = hpoints[t]
    /\ hpc' = [hpc EXCEPT ![t] = "save_copy"]
    /\ cleared' = FALSE
    /\ UNCHANGED << pipelineVars, file, hbody, hpoints, hcopy, resp, last_replaced, hbefore,
                    io_failed, nrequests >>

\* app.py:62-64: save_polygon() copies polygon_points; a value without copy()
\* raises into app.py:69-71, save_polygon() returns False, the answer is 500.
SaveCopy(t) ==
    /\ hpc[t] = "save_copy"
    /\ IF IsList(polygon_points)
       THEN /\ hcopy' = [hcopy EXCEPT ![t] = polygon_points]
            /\ hpc' = [hpc EXCEPT ![t] = "save_open"]
            /\ UNCHANGED resp
       ELSE /\ Answer(t, "replace", 500, <<>>)
            /\ UNCHANGED hcopy
    /\ UNCHANGED << pipelineVars, regionVars, hbody, hpoints, last_replaced, cleared, hbefore,
                    io_failed, nrequests >>

\* What open() and json.dump() may do: succeed or raise.
WriteOutcomes == {"ok", "error"}

\* app.py:65: open(POLYGON_SAVE_FILE, 'w') creates the file or empties it; when
\* it raises, save_polygon() returns False and the answer is 500 (app.py:69-71,
\* 327-328).
SaveOpen(t) ==
    /\ hpc[t] = "save_open"
    /\ \E o \in WriteOutcomes :
         IF o = "ok"
         THEN /\ file' = FileEmpty
              /\ hpc' = [hpc EXCEPT ![t] = "save_dump"]
              /\ UNCHANGED << resp, io_failed >>
         ELSE /\ Answer(t, "replace", 500, <<>>)
              /\ io_failed' = TRUE
              /\ UNCHANGED file
    /\ UNCHANGED << pipelineVars, polygon_points, hbody, hpoints, hcopy, last_replaced,
                    cleared, hbefore, nrequests >>

\* app.py:66-68 and 325-330: json.dump() and the close write the text from the
\* start of the file the thread opened, which is no longer POLYGON_SAVE_FILE
\* when it was removed in between.  A write that raises has put the beginning
\* of the text, or nothing, into the file, and the answer is 500.  After the
\* whole write the answer is 200, or 400 when len(points) of the handler's own
\* `points` raises (app.py:326, 329-330).
SaveDump(t) ==
    /\ hpc[t] \in {"save_dump", "save_dump_detached"}
    /\ \E o \in WriteOutcomes :
         IF o = "ok"
         THEN /\ file' = IF hpc[t] = "save_dump"
                         THEN Overwritten(file, hcopy[t], TextLen(hcopy[t]))
                         ELSE file
              /\ Answer(t, "replace", IF HasLen(hpoints[t]) THEN 200 ELSE 400, <<>>)
              /\ UNCHANGED io_failed
         ELSE /\ \E n \in Taken(TextLen(hcopy[t])) :
                   file' = IF hpc[t] = "save_dump"
                           THEN Overwritten(file, hcopy[t], n) ELSE file
              /\ Answer(t, "replace", 500, <<>>)
              /\ io_failed' = TRUE
    /\ UNCHANGED << pipelineVars, polygon_points, hbody, hpoints, hcopy, last_replaced,
                    cleared, hbefore, nrequests >>

\* app.py:333-338; a polygon_points without copy() raises, the answer is 500.
load_polygon_endpoint(t) ==
    /\ started
    /\ hpc[t] = "idle"
    /\ IF IsList(polygon_points)
       THEN Answer(t, "query", 200, polygon_points)
       ELSE Answer(t, "query", 500, <<>>)
    /\ UNCHANGED << pipelineVars, regionVars, hbody, hpoints, hcopy, last_replaced,
                    cleared, hbefore, io_failed, nrequests >>

\* app.py:344-346
remove_polygon(t) ==
    /\ started
    /\ hpc[t] = "idle"
    /\ nrequests < MaxRequests
    /\ nrequests' = nrequests + 1
    /\ polygon_points' = <<>>
    /\ hpc' = [hpc EXCEPT ![t] = "remove_exists"]
    /\ last_replaced' = None
    /\ UNCHANGED << pipelineVars, file, hbody, hpoints, hcopy, resp, cleared, hbefore,
                    io_failed >>

\* app.py:349
RemoveExists(t) ==
    /\ hpc[t] = "remove_exists"
    /\ IF file.state # "absent"
       THEN /\ hpc' = [hpc EXCEPT ![t] = "remove_unlink"]
            /\ UNCHANGED resp
       ELSE Answer(t, "clear", 200, <<>>)
    /\ UNCHANGED << pipelineVars, regionVars, hbody, hpoints, hcopy, last_replaced,
                    cleared, hbefore, io_failed, nrequests >>

\* app.py:350-355: os.remove() may raise (the error is swallowed), and it
\* raises when the file is gone by now.  A thread that has the removed file
\* open keeps writing to it, not to POLYGON_SAVE_FILE.
RemoveUnlink(t) ==
    /\ hpc[t] = "remove_unlink"
    /\ \E ok \in BOOLEAN :
         LET removed == ok /\ file.state # "absent"
         IN  /\ file' = IF removed THEN FileAbsent ELSE file
             /\ io_failed' = (io_failed \/ ~removed)
             /\ hpc' = [u \in Threads |->
                          IF u = t THEN "respond"
                          ELSE IF removed /\ hpc[u] = "save_dump"
                               THEN "save_dump_detached"
                               ELSE hpc[u]]
    /\ resp' = [resp EXCEPT ![t] = [kind |-> "clear", code |-> 200, points |-> <<>>]]
    /\ UNCHANGED << pipelineVars, polygon_points, hbody, hpoints, hcopy, last_replaced,
                    cleared, hbefore, nrequests >>

\* The response is sent; the handler's locals are gone.
Respond(t) ==
    /\ hpc[t] = "respond"
    /\ last_replaced' = IF resp[t].kind = "replace" /\ resp[t].code = 200
                         THEN Some(hpoints[t]) ELSE last_replaced
    /\ cleared' = IF resp[t].kind = "clear" /\ resp[t].code = 200 THEN TRUE ELSE cleared
    /\ hbefore' = [hbefore EXCEPT ![t] = NoRegion]
    /\ hpc' = [hpc EXCEPT ![t] = "idle"]
    /\ hbody' = [hbody EXCEPT ![t] = NoJson]
    /\ hpoints' = [hpoints EXCEPT ![t] = <<>>]
    /\ hcopy' = [hcopy EXCEPT ![t] = <<>>]
    /\ resp' = [resp EXCEPT ![t] = NoResponse]
    /\ UNCHANGED << pipelineVars, regionVars, io_failed, nrequests >>

\* A request that is under way goes on.
HandlerStep(t) ==
    \/ SaveSet(t)
    \/ SaveCopy(t)
    \/ SaveOpen(t)
    \/ SaveDump(t)
    \/ RemoveExists(t)
    \/ RemoveUnlink(t)
    \/ Respond(t)

\* No request is under way.
AllIdle == \A t \in Threads : hpc[t] = "idle"

(* ---------------------------- snapshot handler -------------------------- *)

\* app.py:284-293, the `with snapshot_lock:` block and the return: 200 with the
\* JPEG of snapshot_frame, 404 when there is none or imencode returns ret =
\* False; an imencode that raises is answered 500.
get_snapshot(t) ==
    /\ started
    /\ hpc[t] = "idle"
    /\ IF snapshot_frame # NoFrame
       THEN \E o \in EncodeOutcomes :
                IF o = "ok" THEN Answer(t, "snapshot", 200, Some(snapshot_frame))
                ELSE Answer(t, "snapshot", IF o = "notret" THEN 404 ELSE 500, None)
       ELSE Answer(t, "snapshot", 404, None)
    /\ UNCHANGED << pipelineVars, regionVars, hbody, hpoints, hcopy, last_replaced,
                    cleared, hbefore, io_failed, nrequests >>

(* ----------------------------- status handler --------------------------- *)

\* What a status handler leaves alone, its own pc, lock and dict aside.
notStatusVars == << loopVars, regionVars, hbody, hpoints, hcopy, resp,
                    last_replaced, cleared, hbefore, io_failed, nrequests, geomVars, lk >>

\* app.py:896-899: GET /status takes status_lock.
status(t) ==
    /\ started
    /\ hpc[t] = "idle"
    /\ LockFree(status_lock)
    /\ status_lock' = t
    /\ hpc' = [hpc EXCEPT ![t] = "status_detected"]
    /\ UNCHANGED << notStatusVars, sread >>

\* app.py:901
StatusDetected(t) ==
    /\ hpc[t] = "status_detected"
    /\ sread' = [sread EXCEPT ![t].detected = detection_status.detected]
    /\ hpc' = [hpc EXCEPT ![t] = "status_count"]
    /\ UNCHANGED << notStatusVars, status_lock >>

\* app.py:902
StatusCount(t) ==
    /\ hpc[t] = "status_count"
    /\ sread' = [sread EXCEPT ![t].count = detection_status.count]
    /\ hpc' = [hpc EXCEPT ![t] = "status_trigger"]
    /\ UNCHANGED << notStatusVars, status_lock >>

\* app.py:903
StatusTrigger(t) ==
    /\ hpc[t] = "status_trigger"
    /\ sread' = [sread EXCEPT ![t].last_trigger = detection_status.last_trigger]
    /\ hpc' = [hpc EXCEPT ![t] = "status_return"]
    /\ UNCHANGED << notStatusVars, status_lock >>

\* app.py:900-904: the dict is returned, which releases the lock; the response
\* is sent and the handler is done.
StatusReturn(t) ==
    /\ hpc[t] = "status_return"
    /\ status_lock' = "free"
    /\ sread' = [sread EXCEPT ![t] = StatusAtStart]
    /\ hpc' = [hpc EXCEPT ![t] = "idle"]
    /\ UNCHANGED notStatusVars

(* ---------------------- point_in_polygon, taken alone ------------------- *)

\* A caller holds any point of the grid and any of the polygons.
InitGeometry ==
    /\ InitGlobals
    /\ pip_point \in GridPoints
    /\ pip_polygon \in Polygons
    /\ pip_results = <<>>

\* app.py:74-95: one more call of point_in_polygon(point, polygon).
CallPointInPolygon ==
    /\ Len(pip_results) < MaxCalls
    /\ pip_results' = Append(pip_results, point_in_polygon(pip_point, pip_polygon))
    /\ UNCHANGED << loopVars, regionVars, handlerVars, statusVars,
                    pip_point, pip_polygon, lk >>

(* --------------------------- the locks, alone --------------------------- *)

\* What a thread does with the locks, and the calls that block: entering a
\* `with lock:` block, leaving it, and a call that waits for the disk, the
\* camera, the model, the relay pulse or a sleep.
Acquire(l) == <<"acquire", l>>
Release(l) == <<"release", l>>
Blocking(w) == <<"block", w>>

\* `with lock:` around statements that neither lock nor block.
With(l) == << Acquire(l), Release(l) >>

\* app.py:44-57: os.path.exists(); open() and json.load(); then the assignment
\* under polygon_lock.
load_polygon_path ==
    { << Blocking("disk") >>,
      << Blocking("disk") >> \o With("polygon_lock") }

\* A save_polygon() that writes the file before it leaves the lock.
save_polygon_path_write_inside ==
    { << Acquire("polygon_lock"), Blocking("disk"), Release("polygon_lock") >> }

\* app.py:60-71: the copy under polygon_lock, then open() and json.dump(); a
\* copy that raises leaves the lock and skips the write.
save_polygon_path ==
    { With("polygon_lock") \o << Blocking("disk") >>,
      With("polygon_lock") }

\* app.py:128-133, the flag sample that starts every iteration.
sample_path == With("drawing_lock")

\* app.py:133-172, the rest of a drawing-snapshot iteration: the capture fails,
\* or the snapshot is stored and the region copied; the sleep ends it.
snapshot_paths ==
    { << Blocking("camera"), Blocking("sleep") >>,
      << Blocking("camera") >> \o With("snapshot_lock") \o With("polygon_lock")
          \o << Blocking("sleep") >> }

\* app.py:174-245, the rest of an inference iteration: the capture fails; the
\* model raises; the copy of the region or the filter raises, the lock left;
\* the status is written and the frame published, with or without a pulse in
\* between; the pulse raises.
inference_paths ==
    { << Blocking("camera"), Blocking("sleep") >>,
      << Blocking("camera"), Blocking("inference") >>,
      << Blocking("camera"), Blocking("inference") >> \o With("polygon_lock"),
      << Blocking("camera"), Blocking("inference") >> \o With("polygon_lock")
          \o With("status_lock") \o << Blocking("sleep") >>,
      << Blocking("camera"), Blocking("inference") >> \o With("polygon_lock")
          \o With("status_lock") \o << Blocking("pulse") >> \o With("status_lock")
          \o << Blocking("sleep") >>,
      << Blocking("camera"), Blocking("inference") >> \o With("polygon_lock")
          \o With("status_lock") \o << Blocking("pulse") >> }

\* app.py:128-245: one iteration of detection_loop.
detection_loop_paths ==
    { sample_path \o p : p \in snapshot_paths \cup inference_paths }

\* app.py:284-355 and 896-904: one request.  save_polygon_endpoint assigns under
\* polygon_lock, then calls save_polygon(); remove_polygon assigns under
\* polygon_lock, then looks for the file and removes it.
handler_paths ==
    { With("snapshot_lock"),
      With("drawing_lock"),
      With("status_lock"),
      With("polygon_lock"),
      With("polygon_lock") \o << Blocking("disk") >> }
    \cup { With("polygon_lock") \o p : p \in save_polygon_path }

\* What thread a may run.
PathsOf(a) ==
    IF a = "main" THEN load_polygon_path
    ELSE IF a = "loop" THEN detection_loop_paths
    ELSE handler_paths

\* Thread a has done every operation of its path.
PathDone(a) == lk[a].todo = <<>>

\* The threads that hold lock l.
Holders(l) == { a \in LockActors : l \in lk[a].held }

\* app.py:907-924: the main thread calls load_polygon() once, before the other
\* threads exist; then the detection thread runs iteration after iteration
\* and the HTTP threads request after request.
LockCall(a, p) ==
    /\ PathDone(a)
    /\ p \in PathsOf(a)
    /\ IF a = "main" THEN lk[a] = NoPath
                     ELSE lk["main"] # NoPath /\ PathDone("main")
    /\ lk' = [lk EXCEPT ![a] = [todo |-> p, doing |-> <<"call", "">>, held |-> {}]]
    /\ UNCHANGED << loopVars, regionVars, handlerVars, statusVars, geomVars >>

\* Thread a does the next operation of its path.  threading.Lock.acquire()
\* waits until nobody holds the lock.
LockStep(a) ==
    /\ ~PathDone(a)
    /\ LET op == Head(lk[a].todo)
       IN  /\ op[1] = "acquire" => Holders(op[2]) = {}
           /\ lk' = [lk EXCEPT ![a].todo = Tail(@),
                               ![a].doing = op,
                               ![a].held = IF op[1] = "acquire" THEN @ \cup {op[2]}
                                           ELSE IF op[1] = "release" THEN @ \ {op[2]}
                                           ELSE @]
    /\ UNCHANGED << loopVars, regionVars, handlerVars, statusVars, geomVars >>

(* ----------------------------- specification ---------------------------- *)

\* One step of the detection thread.
DetectionLoop ==
    \/ SampleDrawing
    \/ SnapCapture
    \/ SnapStore
    \/ SnapPoly
    \/ SnapPublish
    \/ Capture
    \/ Infer
    \/ Filter
    \/ UpdateStatus
    \/ RelayCheck
    \/ PulseSetup
    \/ PulseOn
    \/ PulseOff
    \/ PulseCleanup
    \/ StampTime
    \/ StampStatus
    \/ Publish

\* The pipeline with its clock and the drawing-mode requests; nobody streams.
Next ==
    \/ Main
    \/ Tick
    \/ DetectionLoop
    \/ start_drawing
    \/ stop_drawing

Spec == Init /\ [][Next]_vars

\* The pipeline and the stream connections.  No polygon file, and the clock
\* stands still (the queue and its consumers never read it).
InitStream == Init /\ file = FileAbsent

NextStream ==
    \/ Main
    \/ DetectionLoop
    \/ start_drawing
    \/ stop_drawing
    \/ \E c \in Consumers : video_feed(c)
    \/ \E c \in Consumers : generate_frames(c)
    \/ \E c \in Consumers : Disconnect(c)

SpecStream == InitStream /\ [][NextStream]_vars

\* The region requests, one at a time: a request starts when none is under way.
\* The pipeline does not run (no region handler reads what it writes).  The
\* process may be restarted between two requests.
NextRegionSeq ==
    \/ Main
    \/ AllIdle /\ Restart
    \/ \E t \in Threads, b \in Bodies : AllIdle /\ save_polygon_endpoint(t, b)
    \/ \E t \in Threads : AllIdle /\ load_polygon_endpoint(t)
    \/ \E t \in Threads : AllIdle /\ remove_polygon(t)
    \/ \E t \in Threads : HandlerStep(t)

SpecRegionSeq == Init /\ [][NextRegionSeq]_vars

\* Replace and clear requests on two worker threads at once (threaded=True): a
\* request starts on any idle thread, whatever the other thread is doing.  The
\* replace requests carry no points, four points, or a number.
ConcPayloads == { <<>>, Square, NotAList }

NextRegionConc ==
    \/ Main
    \/ \E t \in Threads, r \in ConcPayloads : save_polygon_endpoint(t, WithPoints(r))
    \/ \E t \in Threads : remove_polygon(t)
    \/ \E t \in Threads : HandlerStep(t)

SpecRegionConc == Init /\ [][NextRegionConc]_vars

\* The locking of the threads, taken alone.  A thread that can go on does so
\* in the end: the scheduler runs every thread that is ready, and a blocking
\* call returns.  Which of the threads that wait for a lock gets it when it
\* is released is open (threading.Lock promises no order), so a thread at an
\* acquire() that finds the lock taken each time it looks is not helped.
NextLocks ==
    \/ \E a \in LockActors : \E p \in PathsOf(a) : LockCall(a, p)
    \/ \E a \in LockActors : LockStep(a)

SpecLocks ==
    InitStream /\ [][NextLocks]_vars /\ \A a \in LockActors : WF_vars(LockStep(a))

\* The detection thread with the status update taken step by step.
DetectionLoopLocked ==
    \/ SampleDrawing
    \/ SnapCapture
    \/ SnapStore
    \/ SnapPoly
    \/ SnapPublish
    \/ Capture
    \/ Infer
    \/ Filter
    \/ UpdateStatusAcquire
    \/ UpdateStatusDetected
    \/ UpdateStatusCount
    \/ RelayCheck
    \/ PulseSetup
    \/ PulseOn
    \/ PulseOff
    \/ PulseCleanup
    \/ StampTime
    \/ StampStatus
    \/ Publish

\* The pipeline, its clock, the drawing-mode requests, and the clients that
\* poll /status.
NextStatus ==
    \/ Main
    \/ Tick
    \/ DetectionLoopLocked
    \/ start_drawing
    \/ stop_drawing
    \/ \E t \in Threads : status(t)
    \/ \E t \in Threads : StatusDetected(t)
    \/ \E t \in Threads : StatusCount(t)
    \/ \E t \in Threads : StatusTrigger(t)
    \/ \E t \in Threads : StatusReturn(t)

SpecStatus == InitStream /\ [][NextStatus]_vars

\* The pipeline and the clients that share a variable with it other than the
\* region and the queue: they switch drawing mode, fetch the snapshot, poll
\* /status.  The clock stands still.
NextHttp ==
    \/ Main
    \/ DetectionLoop
    \/ start_drawing
    \/ stop_drawing
    \/ \E t \in Threads : get_snapshot(t)
    \/ \E t \in Threads : Respond(t)
    \/ \E t \in Threads : status(t)
    \/ \E t \in Threads : StatusDetected(t)
    \/ \E t \in Threads : StatusCount(t)
    \/ \E t \in Threads : StatusTrigger(t)
    \/ \E t \in Threads : StatusReturn(t)

SpecHttp == InitStream /\ [][NextHttp]_vars

\* The pipeline and the drawing-mode requests, with a detection thread that
\* is scheduled again and again as long as it has a step to take.
NextDrawing ==
    \/ Main
    \/ DetectionLoop
    \/ start_drawing
    \/ stop_drawing

SpecDrawingFair == InitStream /\ [][NextDrawing]_vars /\ WF_vars(DetectionLoop)

\* point_in_polygon called, again and again, on one point and polygon.
NextGeometry == CallPointInPolygon

SpecGeometry == InitGeometry /\ [][NextGeometry]_vars

(* ================================ claims ================================ *)

\* The iteration in progress is an inference iteration with a detection and a
\* region copy of fewer than 3 points.
Qualifying == ~is_drawing /\ Len(poly_points) < 3 /\ Len(detections) > 0

\* C1: any two consecutive calls of pulse_relay() are more than COOLDOWN apart
\* on the clock the loop reads (the `now` of the iteration that makes the call).
C1_Cooldown ==
    \A i \in 2..Len(pulses) : pulses[i].at - pulses[i - 1].at > COOLDOWN

\* Two pulses have been started.
C1_Witness == Len(pulses) >= 2

\* C2, as claimed: no step taken while drawing_mode is true starts pulse_relay()
\* or is the write of detection_status["detected"] by an inference iteration.
C2_Original ==
    [][drawing_mode => /\ pulses' = pulses
                       /\ ~(pc = "status" /\ pc' = "relay")]_vars

\* C2, amended: an iteration that sampled drawing_mode as true starts no
\* pulse_relay() and leaves detection_status alone; only an iteration that
\* sampled it as false (possibly just before start_drawing) does either.
C2_DrawingSuppresses ==
    [][is_drawing => /\ pulses' = pulses
                     /\ detection_status' = detection_status]_vars

\* A snapshot iteration is about to publish, after an earlier detection.
C2_Witness ==
    /\ drawing_mode /\ is_drawing /\ pc = "snap_publish"
    /\ detection_status.detected

\* C3: in a qualifying iteration (drawing off, region of fewer than 3 points, a
\* detection) the status update sets detected and adds exactly 1 to count; the
\* relay check then calls pulse_relay() if and only if more than COOLDOWN has
\* passed since the last trigger; no other step calls it, never twice for one
\* frame, and never after the frame was put into the queue.
C3_EmptyRegionDetection ==
    [][ /\ (pc = "status" /\ Qualifying /\ pc' # pc) =>
              /\ detection_status'.detected
              /\ detection_status'.count = detection_status.count + 1
        /\ (pc = "relay" /\ Qualifying /\ pc' # pc) =>
              IF clock - last_trigger_time > COOLDOWN
              THEN /\ pulses' = Append(pulses, [at |-> clock, frame |-> frame])
                   /\ pc' = "pulse_setup"
              ELSE pulses' = pulses
        /\ pc # "relay" => pulses' = pulses
        /\ \A i, j \in 1..Len(pulses') : i < j => pulses'[i].frame < pulses'[j].frame
        /\ pulses' # pulses => npublished < frame
      ]_vars

\* A qualifying iteration over a 2-point region reached its publish step after
\* its pulse.
C3_Witness ==
    /\ pc = "publish" /\ Qualifying /\ poly_points = Segment
    /\ detections = <<BoxOutside>>
    /\ Len(pulses) > 0 /\ pulses[Len(pulses)].frame = frame
    /\ detection_status.detected /\ detection_status.count = 1

\* C4, as claimed: a failure of the inference step never ends the loop.
C4_InferenceFailureCaught ==
    [][(pc = "infer") => (pc' # "stopped")]_vars

\* C5, as claimed: a failure inside pulse_relay() never ends the loop.
C5_PulseFailureSurvived ==
    [][(pc \in PulsePcs) => (pc' # "stopped")]_vars

\* C6, as claimed: when a call of pulse_relay() that has driven the pin active
\* ends, by returning or by raising, the pin is inactive and GPIO is released.
C6_InactiveRestored ==
    [][(pc \in {"pulse_off", "pulse_cleanup"} /\ pc' \notin PulsePcs) =>
           /\ relay_pin' # "LOW"
           /\ ~gpio_setup']_vars

\* The frames in a queue.
Frames(q) == { q[i] : i \in 1..Len(q) }

\* C7: frame_queue never holds more than 2 frames, and whenever the loop is at
\* a publish step that step can be taken at once (it leads to the next
\* iteration), whatever the stream connections do.
C7_PublishNeverBlocks ==
    /\ Len(frame_queue) <= QueueMaxsize
    /\ pc = "publish" => ENABLED Publish
    /\ pc = "snap_publish" => ENABLED SnapPublish

\* The loop is about to publish into a full queue that a connected consumer
\* has not read.
C7_Witness ==
    /\ pc = "publish" /\ Len(frame_queue) = QueueMaxsize
    /\ cpc["c1"] = "get" /\ received["c1"] = <<>>

\* C8, as claimed: a publish step taken while the queue holds 2 frames leaves
\* the new frame in the queue and the oldest one out of it.
C8_OldestDropped ==
    [][(pc \in {"publish", "snap_publish"} /\ pc' = "sample"
          /\ Len(frame_queue) = QueueMaxsize) =>
           /\ frame \in Frames(frame_queue')
           /\ Head(frame_queue) \notin Frames(frame_queue')]_vars

\* Frames an open connection was handed that were published before it opened.
Replayed(c) == { i \in 1..Len(received[c]) : received[c][i] <= joined[c] }

\* C9, as claimed: every frame a connection is handed was published after the
\* connection was opened.
C9_NoReplay ==
    \A c \in Consumers : Replayed(c) = {}

\* C9, amended: a connection is handed at most 2 frames (the capacity of
\* frame_queue) that were published before it was opened.
C9_ReplayBounded ==
    \A c \in Consumers : Cardinality(Replayed(c)) <= QueueMaxsize

\* A connection was handed a frame published before it opened, then one
\* published after.
C9_Witness ==
    \E c \in Consumers :
        /\ Replayed(c) # {}
        /\ \E i \in 1..Len(received[c]) : received[c][i] > joined[c]

\* C10, as claimed: a query answers with exactly the points of the last replace
\* that was answered with success, when no clear came after it.
C10_RoundTrip ==
    \A t \in Threads :
        (hpc[t] = "respond" /\ resp[t].kind = "query" /\ last_replaced # None) =>
            /\ resp[t].code = 200
            /\ resp[t].points = last_replaced[1]

\* C11, as claimed: once a clear was answered with success, and until the next
\* replace sets the region, polygon_points is empty and the file is gone, also
\* after the process was restarted and load_polygon() has run.
C11_ClearRemovesBoth ==
    cleared => /\ polygon_points = <<>>
               /\ file.state = "absent"

\* A body that is not an object with a `points` field holding a sequence.
Invalid(body) == ~body.json \/ ~body.has_points \/ ~IsList(body.points)

\* C12, as claimed: a replace with an invalid body is answered with a client
\* error (4xx), and polygon_points and the file are as the request found them.
C12_InvalidRejected ==
    \A t \in Threads :
        (hpc[t] = "respond" /\ resp[t].kind = "replace" /\ Invalid(hbody[t])) =>
            /\ resp[t].code \in 400..499
            /\ Region(polygon_points, file) = hbefore[t]

\* C13, as claimed: when the write of the file fails in a replace (the file
\* does not hold the request's points after it), the answer reports a failure
\* and polygon_points is what it was when the request came.
C13_PersistFailureKeepsRegion ==
    [][\A t \in Threads :
         (hpc[t] \in {"save_open", "save_dump"} /\ hpc'[t] = "respond"
            /\ file' # FileWith(hcopy[t])) =>
             /\ resp'[t].code >= 400
             /\ polygon_points' = hbefore[t].mem]_vars

\* C14: the dict a status handler returns is detection_status as it is at the
\* instant of the return, an instant at which the pipeline is not inside one of
\* its status updates (it holds no lock and is at none of the block's writes).
C14_StatusReadAtomic ==
    \A t \in Threads :
        hpc[t] = "status_return" =>
            /\ sread[t] = detection_status
            /\ status_lock # "loop"
            /\ pc \notin {"status_detected", "status_count"}

\* A handler returns the status between the update of an iteration and the
\* stamp of its pulse, on which the pipeline waits for the lock; the other
\* handler waits as well.
C14_Witness ==
    /\ hpc["t1"] = "status_return" /\ hpc["t2"] = "idle"
    /\ sread["t1"] = [detected |-> TRUE, last_trigger |-> None, count |-> 1]
    /\ pc = "stamp_status"

\* C15: but for the start of the process, no step makes count smaller or
\* last_trigger absent again, and every step that changes detection_status is
\* a step of the pipeline at one of its two `with status_lock:` blocks; so no
\* step of an HTTP handler changes it.
C15_StatusOnlyPipeline ==
    [][started' =>
         /\ detection_status'.count >= detection_status.count
         /\ (detection_status.last_trigger # None) =>
                (detection_status'.last_trigger # None)
         /\ (detection_status' # detection_status) =>
                /\ pc \in {"status", "status_detected", "status_count", "stamp_status"}
                /\ pc' # pc]_vars

\* After two detections and a pulse, in drawing mode, a snapshot request is
\* answered while a status request holds the dict it read.
C15_Witness ==
    /\ detection_status.count = 2 /\ detection_status.last_trigger # None
    /\ drawing_mode
    /\ hpc["t1"] = "respond" /\ resp["t1"].kind = "snapshot"
    /\ hpc["t2"] = "status_return" /\ sread["t2"].count = 2

\* C16, as claimed: every get_snapshot request made while drawing_mode is true
\* is answered with an image.
C16_Original ==
    [][\A t \in Threads :
         (drawing_mode /\ hpc[t] = "idle" /\ resp'[t].kind = "snapshot") =>
             resp'[t].code = 200]_vars

\* C16, amended: a get_snapshot request is answered "not available" as long as
\* no snapshot was stored, also in drawing mode; an image it is answered with
\* is the stored snapshot; the stored snapshot is the frame of the latest
\* drawing-mode iteration that captured one, it is never emptied (so it stays
\* after drawing mode is exited), and while there is one a request can be
\* answered with it (it is, unless the JPEG encoder fails).
C16_SnapshotOnceCaptured ==
    [][/\ \A t \in Threads :
            (hpc[t] = "idle" /\ resp'[t].kind = "snapshot") =>
                /\ (snapshot_frame = NoFrame) => (resp'[t].code = 404)
                /\ (resp'[t].code = 200) => (resp'[t].points = Some(snapshot_frame))
       /\ (snapshot_frame # NoFrame) =>
                /\ snapshot_frame' # NoFrame
                /\ \A t \in Threads : hpc[t] = "idle" =>
                       ENABLED (get_snapshot(t) /\ resp'[t].code = 200)
       /\ (pc' \in {"snap_poly", "snap_publish"}) => (snapshot_frame' = frame')
       /\ (snapshot_frame' # snapshot_frame) => (pc = "snap_store" /\ is_drawing)
      ]_vars

\* In drawing mode a request is answered with the snapshot that the iteration
\* in progress has stored.
C16_Witness ==
    /\ drawing_mode /\ is_drawing /\ pc = "snap_publish"
    /\ hpc["t1"] = "respond" /\ resp["t1"].kind = "snapshot"
    /\ resp["t1"].code = 200 /\ resp["t1"].points = Some(frame)

\* C17: every call of point_in_polygon with a polygon of fewer than 3 vertices
\* (0, 1 or 2 points) returns true, whatever the point.
C17_FewVerticesContainAll ==
    Len(pip_polygon) < 3 =>
        \A i \in 1..Len(pip_results) : pip_results[i] = TRUE

\* The function has returned for a point far from the one vertex of a
\* 1-point polygon (ray casting alone would call it outside).
C17_Witness ==
    /\ pip_polygon = << <<5, 5>> >>
    /\ pip_point = <<15, 0>>
    /\ Len(pip_results) = 1

\* C18: on the square [(0,0),(10,0),(10,10),(0,10)], every call returns true
\* for (5,5) and false for (15,5), and all calls for the boundary point (10,5)
\* return the same value.
C18_Square ==
    pip_polygon = Square =>
        /\ pip_point = <<5, 5>> =>
               \A i \in 1..Len(pip_results) : pip_results[i] = TRUE
        /\ pip_point = <<15, 5>> =>
               \A i \in 1..Len(pip_results) : pip_results[i] = FALSE
        /\ pip_point = <<10, 5>> =>
               \A i, j \in 1..Len(pip_results) : pip_results[i] = pip_results[j]

\* The function was called twice for the boundary point of the square, and
\* called it inside both times.
C18_Witness ==
    /\ pip_polygon = Square
    /\ pip_point = <<10, 5>>
    /\ pip_results = <<TRUE, TRUE>>

\* C19: last_trigger_time changes only in the step right after pulse_relay()
\* has returned (to the `now` of the iteration), and status last_trigger only
\* in the step after that one; the loop comes to these steps from the return
\* of pulse_relay() and from nowhere else.  So a pulse_relay() that raises,
\* and an iteration that calls none, leave both as they were.
C19_StampOnlyAfterPulse ==
    [][/\ (last_trigger_time' # last_trigger_time) =>
              (pc = "stamp" /\ last_trigger_time' = now)
       /\ (detection_status'.last_trigger # detection_status.last_trigger) =>
              (pc = "stamp_status")
       /\ (pc' = "stamp" /\ pc # "stamp") => (pc = "pulse_cleanup")
       /\ (pc' = "stamp_status" /\ pc # "stamp_status") => (pc = "stamp")
       /\ (pc = "stamp" /\ pc' # pc) => (last_trigger_time' = now)
       /\ (pc = "stamp_status" /\ pc' # pc) =>
              (detection_status'.last_trigger = Some(clock))
      ]_vars

\* The second pulse_relay() of the run has raised: the loop has ended, and the
\* cooldown timestamp and last_trigger are those of the first pulse.
C19_Witness ==
    /\ pc = "stopped" /\ Len(pulses) = 2
    /\ last_trigger_time = pulses[1].at
    /\ detection_status.last_trigger # None
    /\ now = pulses[2].at

\* C20: the status update of an inference iteration sets detected to (filtered
\* list non-empty) and adds 1 to count exactly if it is non-empty, whatever
\* the cooldown; no other step changes detected or count; and every iteration
\* that has filtered its detections comes to this update next.
C20_StatusFollowsFilter ==
    [][/\ (pc = "status" /\ pc' # pc) =>
              LET hit == Len(valid_detections(detections, poly_points)) > 0
              IN  /\ detection_status'.detected = hit
                  /\ detection_status'.count =
                        detection_status.count + (IF hit THEN 1 ELSE 0)
       /\ (\/ detection_status'.detected # detection_status.detected
           \/ detection_status'.count # detection_status.count) => (pc = "status")
       /\ (pc = "read_poly" /\ pc' \notin {pc, "stopped"}) => (pc' = "status")
      ]_vars

\* A second detection came within the cooldown: it was counted, and the loop
\* is about to publish its frame without a pulse.
C20_Witness ==
    /\ pc = "publish" /\ detected
    /\ detection_status.count = 2 /\ detection_status.detected
    /\ Len(pulses) = 1 /\ pulses[1].frame < frame
    /\ ~CooldownOver(now, last_trigger_time)

\* The detections of a list whose box centre passes point_in_polygon.
CentreInside(boxes, polygon) ==
    LET Passes(box) == point_in_polygon(Center(box), polygon)
    IN  SelectSeq(boxes, Passes)

\* The iteration in progress is an inference iteration over a region copy of at
\* least 3 points, and the centre of every detection is outside the region.
AllOutside ==
    /\ ~is_drawing /\ Len(poly_points) >= 3
    /\ CentreInside(detections, poly_points) = <<>>

\* C21: the filter step of an inference iteration retains exactly the
\* detections whose centre passes point_in_polygon when the region copy has at
\* least 3 points, and all of them when it has fewer; an iteration with a
\* region of at least 3 points and every centre outside sets detected to false,
\* leaves count as it is and calls no pulse_relay().
C21_RegionFilter ==
    [][/\ (pc = "read_poly" /\ pc' = "status") =>
              LET retained == IF Len(poly_points') >= 3
                              THEN CentreInside(detections, poly_points')
                              ELSE detections
              IN  /\ poly_points' = polygon_points
                  /\ valid_detections(detections, poly_points') = retained
                  /\ detected' = (Len(retained) > 0)
       /\ (pc = "status" /\ AllOutside /\ pc' # pc) =>
              /\ detection_status'.detected = FALSE
              /\ detection_status'.count = detection_status.count
       /\ (pc = "relay" /\ AllOutside /\ pc' # pc) =>
              /\ pc' = "publish"
              /\ pulses' = pulses
      ]_vars

\* An iteration over the square saw one detection, outside: it is about to
\* publish with detected false and no pulse.
C21_Witness ==
    /\ pc = "publish" /\ AllOutside /\ poly_points = Square
    /\ detections = <<BoxOutside>>
    /\ detection_status.detected = FALSE
    /\ pulses = <<>>

\* C22: a capture that returns no frame or raises, in an inference or in a
\* snapshot iteration, leads to the next iteration, and no step of such an
\* iteration (the flag sample and the capture) changes detection_status,
\* last_trigger_time, snapshot_frame or frame_queue.
C22_CaptureFailureRetried ==
    [][/\ (pc \in {"capture", "snap_capture"} /\ pc' # pc /\ nframes' = nframes) =>
              pc' = "sample"
       /\ (pc \in {"sample", "capture", "snap_capture"} /\ pc' # pc) =>
              UNCHANGED << detection_status, last_trigger_time, snapshot_frame,
                           frame_queue >>
      ]_vars

\* After a counted detection and a stored snapshot, a capture failed in a
\* snapshot iteration: the loop is at its next iteration, and nothing of the
\* shared state has moved.
C22_Witness ==
    /\ pc = "sample" /\ is_drawing /\ frame = NoFrame
    /\ snapshot_frame # NoFrame /\ snapshot_frame = npublished
    /\ detection_status.count = 1

\* C24, as claimed: every iteration starts with a sample of the flag and is a
\* snapshot iteration exactly if the flag is true at the sample; and, the
\* detection thread being scheduled fairly, a flag that is true leads to the
\* start of a snapshot iteration unless it is cleared first, and a flag that
\* is false to the start of an inference iteration unless it is set first.
C24_VisibleNextIteration ==
    /\ [][/\ ((pc = "sample" /\ pc' # pc) =>
                (/\ is_drawing' = drawing_mode
                 /\ pc' = IF drawing_mode THEN "snap_capture" ELSE "capture"))
           /\ ((pc' \in {"snap_capture", "capture"} /\ pc' # pc) => (pc = "sample"))
          ]_vars
    /\ (started /\ drawing_mode) ~> (pc = "snap_capture" \/ ~drawing_mode)
    /\ (started /\ ~drawing_mode) ~> (pc = "capture" \/ drawing_mode)

\* The positions of a drawing-snapshot iteration after its flag sample.
SnapshotPcs == {"snap_capture", "snap_store", "snap_poly", "snap_publish"}

\* C25: an iteration that sampled drawing_mode as true runs only the snapshot
\* branch and goes back to the flag sample; none of its steps changes
\* detection_status, last_trigger_time, the region or its file, or pulses the
\* relay; snapshot_frame is written only by the store step, with the captured
\* frame; and the queue changes only at the publish step, by at most that one
\* frame.  So status.detected stays what the last inference iteration wrote
\* through every snapshot iteration.
C25_DrawingIterationIdle ==
    [][(is_drawing /\ pc \in SnapshotPcs) =>
          (/\ pc' \in SnapshotPcs \cup {"sample"}
           /\ UNCHANGED << detection_status, last_trigger_time, regionVars,
                           pulses, relayVars >>
           /\ IF pc = "snap_store" /\ pc' # pc
              THEN snapshot_frame' = frame
              ELSE snapshot_frame' = snapshot_frame
           /\ IF pc = "snap_publish" /\ pc' # pc
              THEN frame_queue' \in {frame_queue, Append(frame_queue, frame)}
              ELSE frame_queue' = frame_queue)]_vars

\* A snapshot iteration has ended after a detection that pulsed the relay: its
\* frame is the stored snapshot and the last frame published, and the status
\* still shows the detection.
C25_Witness ==
    /\ pc = "sample" /\ is_drawing
    /\ frame # NoFrame /\ snapshot_frame = frame /\ npublished = frame
    /\ detection_status.detected /\ detection_status.count = 1
    /\ Len(pulses) = 1

\* The frames of q appear in the order of publication (frames are numbered in
\* the order the loop captures, and so publishes, them).
InPublicationOrder(q) == \A i, j \in 1..Len(q) : i < j => q[i] < q[j]

\* C27: no frame is handed to two connections, a frame that was handed out is
\* no longer in frame_queue, and the frames handed to one connection, like
\* those waiting in the queue, are in the order of publication.
C27_SharedQueueDelivery ==
    /\ \A c, d \in Consumers :
          c # d => Frames(received[c]) \cap Frames(received[d]) = {}
    /\ \A c \in Consumers :
          /\ Frames(received[c]) \cap Frames(frame_queue) = {}
          /\ InPublicationOrder(received[c])
    /\ InPublicationOrder(frame_queue)

\* Two connections are open at once and have shared three published frames:
\* one was handed the first and the third, the other the second.
C27_Witness ==
    /\ cpc["c1"] = "get" /\ cpc["c2"] = "get"
    /\ received["c1"] = <<1, 3>>
    /\ received["c2"] = <<2>>

\* C28: while drawing_mode is set, since it was last set, at most one
\* inference iteration has written detection_status and pulse_relay() has been
\* called at most once; an iteration that writes or pulses under the set flag
\* sampled the flag as false.
C28_BoundedLeak ==
    /\ drawing_mode => /\ Cardinality(leak.writers) <= 1
                       /\ leak.pulses <= 1
    /\ (drawing_mode /\ pc \in {"status", "relay", "stamp_status"}) => ~is_drawing

\* The flag was set while an iteration was past its sample: that iteration
\* wrote detection_status and pulsed the relay, and the loop is now in a
\* snapshot iteration.
C28_Witness ==
    /\ drawing_mode /\ is_drawing /\ pc = "snap_publish"
    /\ Cardinality(leak.writers) = 1 /\ leak.pulses = 1

\* C26, as claimed: when every request has returned, no file operation has
\* failed and the region in memory is a list of points, the file holds exactly
\* that list or, the list being empty, there is no file; so load_polygon()
\* after a restart would give the region that is in memory.
C26_AgreeAtQuiescence ==
    (started /\ AllIdle /\ ~io_failed /\ IsList(polygon_points)) =>
        /\ \/ file = FileWith(polygon_points)
           \/ polygon_points = <<>> /\ file = FileAbsent
        /\ (IF file.state = "valid" THEN file.points ELSE <<>>) = polygon_points

\* Thread a is inside a call that blocks.
InsideBlocking(a) == lk[a].doing[1] = "block"

\* Thread a is at the acquire() of a lock.
AtAcquire(a) == ~PathDone(a) /\ Head(lk[a].todo)[1] = "acquire"

\* Thread a waits for lock l, which another thread holds.
Waiting(a, l) ==
    /\ AtAcquire(a)
    /\ Head(lk[a].todo) = Acquire(l)
    /\ Holders(l) # {}

\* No thread holds more than one of the four locks, no thread holds one while
\* it is inside a blocking call, a lock has one holder at most, and the holder
\* of a lock somebody waits for can take its next step at once.
LockSafety ==
    /\ [](\A a \in LockActors :
             /\ Cardinality(lk[a].held) <= 1
             /\ InsideBlocking(a) => lk[a].held = {})
    /\ [](\A l \in Locks :
             /\ Cardinality(Holders(l)) <= 1
             /\ (\E a \in LockActors : Waiting(a, l)) =>
                   \A b \in Holders(l) : ENABLED LockStep(b))

\* C23, as claimed: the locks are never nested and never held inside a
\* blocking call, and hence every thread that is at the acquire() of a lock
\* gets past it.
C23_NoThreadWaitsForever ==
    /\ LockSafety
    /\ \A a \in LockActors : AtAcquire(a) ~> ~AtAcquire(a)

\* C23, amended: the locks are never nested and never held inside a blocking
\* call, and hence every lock that is held is released: no thread waits for a
\* lock that stays taken.
C23_LockDiscipline ==
    /\ LockSafety
    /\ \A l \in Locks : (Holders(l) # {}) ~> (Holders(l) = {})

\* The detection thread holds status_lock, one HTTP thread waits for it in
\* /status, and the other is at the file, holding nothing.
C23_Witness ==
    /\ lk["loop"].held = {"status_lock"}
    /\ Waiting("t1", "status_lock")
    /\ lk["t2"].doing = Blocking("disk")

=============================================================================
